---------------------------- MODULE Spec2Model ----------------------------
(***************************************************************************)
(* Model of compiler-core/src/language_server/feedback.rs: the Feedback    *)
(* value and the FeedbackBookKeeper that turns the outcome of each         *)
(* compilation pass into the diagnostics diff sent to the client.          *)
(*                                                                         *)
(* A bookkeeper call (compiled, build_with_error, error) is one atomic     *)
(* action that runs the whole method.  The Feedback it returns is then     *)
(* handed to the transport, which publishes it to the client: every entry  *)
(* of the diagnostics map replaces what the client shows for that path.    *)
(***************************************************************************)
EXTENDS Naturals, Sequences, FiniteSets, TLC

VARIABLES
    files_with_warnings,  \* FeedbackBookKeeper.files_with_warnings
    files_with_errors,    \* FeedbackBookKeeper.files_with_errors
    feedback,             \* the Feedback returned and not yet published
    call,                 \* the call that returned it: method, arguments,
                          \* and the bookkeeper's sets before the call
    attached,             \* path the last call attached an error to, or NoPath
    client,               \* per path, the diagnostics the client shows
    pc                    \* "idle": feedback published; "returned": not yet

vars == <<files_with_warnings, files_with_errors, feedback, call, attached,
          client, pc>>

---------------------------------------------------------------------------
(* Bounds and the values the calls are drawn from.                         *)

MaxWarnings == 2          \* longest warnings vector of one call
MaxCompiled == 2          \* longest compiled-paths iterator of one call

Paths == {"f1", "f2"}
NoPath == "none"          \* Option::None of a diagnostic's location

\* Warning values: two different warnings of f1, one of f2, and one with no
\* location.
Warnings ==
    {[id |-> "w1", loc |-> "f1"], [id |-> "w2", loc |-> "f1"],
     [id |-> "w1", loc |-> "f2"], [id |-> "w1", loc |-> NoPath]}

\* Error values: located at a path (Error::Parse), or not (Error::Gzip).
Errors == [id : {"e1"}, loc : Paths \cup {NoPath}]

Range(seq) == {seq[i] : i \in 1..Len(seq)}

SeqsUpTo(S, n) == UNION {[1..k -> S] : k \in 0..n}

\* Every order in which a HashSet may hand out its members.
Orders(S) ==
    {s \in [1..Cardinality(S) -> S] :
        \A i, j \in 1..Cardinality(S) : i # j => s[i] # s[j]}

---------------------------------------------------------------------------
(* Diagnostic conversion (crate::Warning / crate::Error :: to_diagnostic). *)

warning_to_diagnostic(w) ==
    [level |-> "warning", title |-> w.id, location |-> w.loc]

error_to_diagnostic(e) ==
    [level |-> "error", title |-> e.id, location |-> e.loc]

---------------------------------------------------------------------------
(* Feedback                                                                *)

EmptyMap == [p \in {} |-> <<>>]

\* Feedback::default()
FeedbackDefault == [diagnostics |-> EmptyMap, messages |-> <<>>]

\* HashMap::insert
MapInsert(m, k, v) ==
    [q \in DOMAIN m \cup {k} |-> IF q = k THEN v ELSE m[q]]

\* Mutant: the empty list is set only over an entry that exists already.
unset_existing_diagnostics_existing(fb, path) ==
    IF path \in DOMAIN fb.diagnostics
    THEN [fb EXCEPT !.diagnostics = MapInsert(@, path, <<>>)]
    ELSE fb

unset_existing_diagnostics(fb, path) ==
    [fb EXCEPT !.diagnostics = MapInsert(@, path, <<>>)]

\* Mutant: the diagnostic is put in front of the entry.
append_diagnostic_front(fb, path, diagnostic) ==
    LET entry == IF path \in DOMAIN fb.diagnostics
                 THEN fb.diagnostics[path]
                 ELSE <<>>
    IN  [fb EXCEPT !.diagnostics = MapInsert(@, path, <<diagnostic>> \o entry)]

append_diagnostic(fb, path, diagnostic) ==
    LET entry == IF path \in DOMAIN fb.diagnostics
                 THEN fb.diagnostics[path]
                 ELSE <<>>
    IN  [fb EXCEPT !.diagnostics = MapInsert(@, path, Append(entry, diagnostic))]

append_message(fb, diagnostic) ==
    [fb EXCEPT !.messages = Append(@, diagnostic)]

---------------------------------------------------------------------------
(* FeedbackBookKeeper.  A method taking &mut self and returning a Feedback *)
(* is an operator on st = [self |-> the two sets, feedback |-> Feedback].  *)

BookKeeperDefault ==
    [files_with_warnings |-> {}, files_with_errors |-> {}]

\* Mutant: the diagnostic is sent but the path is not recorded.
insert_warning_untracked(st, warning) ==
    LET diagnostic == warning_to_diagnostic(warning)
    IN  IF diagnostic.location # NoPath
        THEN [self |-> st.self,
              feedback |-> append_diagnostic(st.feedback, diagnostic.location,
                                             diagnostic)]
        ELSE st

\* Mutant: a warning without a location becomes a message, as an error does.
insert_warning_message(st, warning) ==
    LET diagnostic == warning_to_diagnostic(warning)
    IN  IF diagnostic.location # NoPath
        THEN [self |-> [st.self EXCEPT !.files_with_warnings =
                                          @ \cup {diagnostic.location}],
              feedback |-> append_diagnostic(st.feedback, diagnostic.location,
                                             diagnostic)]
        ELSE [self |-> st.self,
              feedback |-> append_message(st.feedback, diagnostic)]

insert_warning(st, warning) ==
    LET diagnostic == warning_to_diagnostic(warning)
    IN  IF diagnostic.location # NoPath
        THEN [self |-> [st.self EXCEPT !.files_with_warnings =
                                          @ \cup {diagnostic.location}],
              feedback |-> append_diagnostic(st.feedback, diagnostic.location,
                                             diagnostic)]
        ELSE st

\* Mutant: every compiled path is unset, with or without existing diagnostics.
RECURSIVE UnsetCompiled_always(_, _)
UnsetCompiled_always(st, paths) ==
    IF paths = <<>> THEN st
    ELSE LET path == Head(paths)
         IN  UnsetCompiled_always(
                 [self |-> [st.self EXCEPT !.files_with_warnings = @ \ {path}],
                  feedback |-> unset_existing_diagnostics(st.feedback, path)],
                 Tail(paths))

\* Mutant: membership is tested with contains, the path is not removed.
RECURSIVE UnsetCompiled_contains(_, _)
UnsetCompiled_contains(st, paths) ==
    IF paths = <<>> THEN st
    ELSE LET path == Head(paths)
         IN  UnsetCompiled_contains(
                 [self |-> st.self,
                  feedback |-> IF path \in st.self.files_with_warnings
                               THEN unset_existing_diagnostics(st.feedback, path)
                               ELSE st.feedback],
                 Tail(paths))

\* Mutant: the compiled paths leave the set but are not retracted.
UnsetCompiled_silent(st, paths) ==
    [self |-> [st.self EXCEPT !.files_with_warnings = @ \ Range(paths)],
     feedback |-> st.feedback]

\* for path in compiled { ... }
RECURSIVE UnsetCompiled(_, _)
UnsetCompiled(st, paths) ==
    IF paths = <<>> THEN st
    ELSE LET path == Head(paths)
             has_existing_diagnostics == path \in st.self.files_with_warnings
             removed == [st.self EXCEPT !.files_with_warnings = @ \ {path}]
         IN  UnsetCompiled(
                 [self |-> removed,
                  feedback |-> IF has_existing_diagnostics
                               THEN unset_existing_diagnostics(st.feedback, path)
                               ELSE st.feedback],
                 Tail(paths))

\* Mutant: the drained paths are not retracted in the Feedback.
UnsetDrained_skip(fb, order) == fb

\* Mutant: only the first path the drain hands out is retracted.
UnsetDrained_first(fb, order) ==
    IF order = <<>> THEN fb
    ELSE unset_existing_diagnostics(fb, Head(order))

\* for path in self.files_with_errors.drain() { ... }, in the order `order`
RECURSIVE UnsetDrained(_, _)
UnsetDrained(fb, order) ==
    IF order = <<>> THEN fb
    ELSE UnsetDrained(unset_existing_diagnostics(fb, Head(order)), Tail(order))

\* Mutant: the set is iterated, not drained.
DrainErrors_keep(st, order) ==
    [self |-> st.self, feedback |-> UnsetDrained(st.feedback, order)]

DrainErrors(st, order) ==
    [self |-> [st.self EXCEPT !.files_with_errors = {}],
     feedback |-> UnsetDrained(st.feedback, order)]

\* for warning in warnings { self.insert_warning(&mut feedback, warning) }
RECURSIVE InsertWarnings(_, _)
InsertWarnings(st, warnings) ==
    IF warnings = <<>> THEN st
    ELSE InsertWarnings(insert_warning(st, Head(warnings)), Tail(warnings))

\* Mutant: errors are retracted only for the paths that were recompiled.
compiled_drain_only_compiled(self, paths, warnings, order) ==
    LET st0 == [self |-> self, feedback |-> FeedbackDefault]
        st1 == UnsetCompiled(st0, paths)
        hit == SelectSeq(order, LAMBDA q : q \in Range(paths))
        st2 == [self |-> [st1.self EXCEPT !.files_with_errors = @ \ Range(hit)],
                feedback |-> UnsetDrained(st1.feedback, hit)]
    IN  InsertWarnings(st2, warnings)

\* Mutant: the warnings are inserted first, the retractions come last.
compiled_retract_last(self, paths, warnings, order) ==
    LET st0 == [self |-> self, feedback |-> FeedbackDefault]
        st1 == InsertWarnings(st0, warnings)
        st2 == UnsetCompiled(st1, paths)
    IN  DrainErrors(st2, order)

\* `order` is the iteration order of files_with_errors.drain().
compiled(self, paths, warnings, order) ==
    LET st0 == [self |-> self, feedback |-> FeedbackDefault]
        st1 == UnsetCompiled(st0, paths)
        st2 == DrainErrors(st1, order)
    IN  InsertWarnings(st2, warnings)

\* Mutant: an error without a location is dropped, no message is appended.
build_with_error_no_message(self, error, paths, warnings, order) ==
    LET diagnostic == error_to_diagnostic(error)
        st == compiled(self, paths, warnings, order)
    IN  IF diagnostic.location # NoPath
        THEN [self |-> [st.self EXCEPT !.files_with_errors =
                                          @ \cup {diagnostic.location}],
              feedback |-> append_diagnostic(st.feedback, diagnostic.location,
                                             diagnostic)]
        ELSE st

\* Mutant: the path of the error is not recorded in files_with_errors.
build_with_error_no_insert(self, error, paths, warnings, order) ==
    LET diagnostic == error_to_diagnostic(error)
        st == compiled(self, paths, warnings, order)
    IN  IF diagnostic.location # NoPath
        THEN [self |-> st.self,
              feedback |-> append_diagnostic(st.feedback, diagnostic.location,
                                             diagnostic)]
        ELSE [self |-> st.self,
              feedback |-> append_message(st.feedback, diagnostic)]

build_with_error(self, error, paths, warnings, order) ==
    LET diagnostic == error_to_diagnostic(error)
        st == compiled(self, paths, warnings, order)
    IN  IF diagnostic.location # NoPath
        THEN [self |-> [st.self EXCEPT !.files_with_errors =
                                          @ \cup {diagnostic.location}],
              feedback |-> append_diagnostic(st.feedback, diagnostic.location,
                                             diagnostic)]
        ELSE [self |-> st.self,
              feedback |-> append_message(st.feedback, diagnostic)]

\* Mutant: the error is attached without running compiled first.
error_without_compiled(self, e, order) ==
    LET diagnostic == error_to_diagnostic(e)
    IN  IF diagnostic.location # NoPath
        THEN [self |-> [self EXCEPT !.files_with_errors =
                                       @ \cup {diagnostic.location}],
              feedback |-> append_diagnostic(FeedbackDefault, diagnostic.location,
                                             diagnostic)]
        ELSE [self |-> self,
              feedback |-> append_message(FeedbackDefault, diagnostic)]

error(self, e, order) == build_with_error(self, e, <<>>, <<>>, order)

---------------------------------------------------------------------------
(* The client: publish-diagnostics with full-replace semantics.            *)

ApplyFeedback(view, fb) ==
    [q \in DOMAIN view \cup DOMAIN fb.diagnostics |->
        IF q \in DOMAIN fb.diagnostics THEN fb.diagnostics[q] ELSE view[q]]

---------------------------------------------------------------------------
(* The state machine.                                                      *)

Self == [files_with_warnings |-> files_with_warnings,
         files_with_errors |-> files_with_errors]

NoError == [id |-> "none", loc |-> NoPath]

NoCall == [op |-> "none", error |-> NoError, paths |-> <<>>, warnings |-> <<>>,
           order |-> <<>>, self |-> BookKeeperDefault, attached |-> NoPath]

Init ==
    /\ files_with_warnings = {}
    /\ files_with_errors = {}
    /\ feedback = FeedbackDefault
    /\ call = NoCall
    /\ attached = NoPath
    /\ client = EmptyMap
    /\ pc = "idle"

Return(st, c) ==
    /\ files_with_warnings' = st.self.files_with_warnings
    /\ files_with_errors' = st.self.files_with_errors
    /\ feedback' = st.feedback
    /\ call' = c
    /\ attached' = c.error.loc
    /\ pc' = "returned"
    /\ UNCHANGED client

Compiled ==
    /\ pc = "idle"
    /\ \E paths \in SeqsUpTo(Paths, MaxCompiled),
          warnings \in SeqsUpTo(Warnings, MaxWarnings),
          order \in Orders(files_with_errors) :
          Return(compiled(Self, paths, warnings, order),
                 [op |-> "compiled", error |-> NoError, paths |-> paths,
                  warnings |-> warnings, order |-> order, self |-> Self,
                  attached |-> attached])

BuildWithError ==
    /\ pc = "idle"
    /\ \E e \in Errors,
          paths \in SeqsUpTo(Paths, MaxCompiled),
          warnings \in SeqsUpTo(Warnings, MaxWarnings),
          order \in Orders(files_with_errors) :
          Return(build_with_error(Self, e, paths, warnings, order),
                 [op |-> "build_with_error", error |-> e, paths |-> paths,
                  warnings |-> warnings, order |-> order, self |-> Self,
                  attached |-> attached])

Error ==
    /\ pc = "idle"
    /\ \E e \in Errors, order \in Orders(files_with_errors) :
          Return(error(Self, e, order),
                 [op |-> "error", error |-> e, paths |-> <<>>,
                  warnings |-> <<>>, order |-> order, self |-> Self,
                  attached |-> attached])

\* The transport publishes the returned Feedback to the client.
Publish ==
    /\ pc = "returned"
    /\ client' = ApplyFeedback(client, feedback)
    /\ feedback' = FeedbackDefault   \* consumed once, not retained
    /\ call' = NoCall
    /\ pc' = "idle"
    /\ UNCHANGED <<files_with_warnings, files_with_errors, attached>>

Next == Compiled \/ BuildWithError \/ Error \/ Publish

Spec == Init /\ [][Next]_vars

\* A bookkeeper holding any two sets of paths: the methods are total over
\* the values of the struct, and files_with_errors.drain() has more than one
\* iteration order only when the set holds more than one path.
InitAnySets ==
    /\ files_with_warnings \in SUBSET Paths
    /\ files_with_errors \in SUBSET Paths
    /\ feedback = FeedbackDefault
    /\ call = NoCall
    /\ attached = NoPath
    /\ client = EmptyMap
    /\ pc = "idle"

\* The returned Feedback is taken by the caller; what the client shows is
\* not followed.
Consume ==
    /\ pc = "returned"
    /\ feedback' = FeedbackDefault
    /\ call' = NoCall
    /\ pc' = "idle"
    /\ UNCHANGED <<files_with_warnings, files_with_errors, attached, client>>

NextAnySets == Compiled \/ BuildWithError \/ Error \/ Consume

\* The methods as functions of the two sets and the arguments.
SpecAnySets == InitAnySets /\ [][NextAnySets]_vars

---------------------------------------------------------------------------
(* Vocabulary of the properties.                                           *)

Keys(fb) == DOMAIN fb.diagnostics

\* The entry of a path in a Feedback, the empty list when it has none.
Entry(fb, P) == IF P \in Keys(fb) THEN fb.diagnostics[P] ELSE <<>>

\* The warnings of a call located at P, in the order supplied.
WarningsAt(ws, P) == SelectSeq(ws, LAMBDA w : w.loc = P)

DiagnosticsOf(ws) == [i \in 1..Len(ws) |-> warning_to_diagnostic(ws[i])]

WarningDiagnostics(ds) == SelectSeq(ds, LAMBDA d : d.level = "warning")

HasWarning(ds) == \E i \in 1..Len(ds) : ds[i].level = "warning"

HasError(ds) == \E i \in 1..Len(ds) : ds[i].level = "error"

\* What the client shows for P: before the pending Feedback is published,
\* and once it has been.
View(P) == IF P \in DOMAIN client THEN client[P] ELSE <<>>

ViewAfter(P) ==
    LET v == ApplyFeedback(client, feedback)
    IN  IF P \in DOMAIN v THEN v[P] ELSE <<>>

Returned == pc = "returned"

IsBuildWithError == call.op \in {"build_with_error", "error"}

\* What compiled would have returned for the arguments and the sets of the call.
Base == compiled(call.self, call.paths, call.warnings, call.order).feedback

---------------------------------------------------------------------------
(* C1: if the preceding call attached an error located at P, a compiled    *)
(* call, whatever its compiled paths, with no warning located at P returns *)
(* diagnostics[P] = [] and leaves P outside files_with_errors.             *)
C1_ErrorRetractedWhateverCompiled ==
    (/\ Returned
     /\ call.op = "compiled"
     /\ call.attached # NoPath
     /\ WarningsAt(call.warnings, call.attached) = <<>>)
    => /\ call.attached \in Keys(feedback)
       /\ feedback.diagnostics[call.attached] = <<>>
       /\ call.attached \notin files_with_errors

\* The regression scenario: the error of f1 is retracted by compiled([], []).
C1_Witness ==
    /\ Returned
    /\ call.op = "compiled"
    /\ call.attached = "f1"
    /\ call.paths = <<>>
    /\ call.warnings = <<>>
    /\ feedback.diagnostics = [q \in {"f1"} |-> <<>>]
    /\ files_with_errors = {}

(* C2: a warning diagnostic the client shows for P before a call is still  *)
(* shown after the call unless P is in the call's compiled paths.          *)
C2_WarningsErasedOnlyForRecompiled ==
    Returned =>
        \A P \in Paths :
            P \notin Range(call.paths) =>
                \A i \in 1..Len(View(P)) :
                    View(P)[i].level = "warning" =>
                        View(P)[i] \in Range(ViewAfter(P))

(* C3: compiled(C, W) with P in C, P in neither set before the call and no *)
(* warning of W located at P returns no entry for P, not even an empty     *)
(* one, and leaves P in neither set.                                       *)
C3_NoSpuriousRetraction ==
    (Returned /\ call.op = "compiled") =>
        \A P \in Range(call.paths) :
            (/\ P \notin call.self.files_with_warnings
             /\ P \notin call.self.files_with_errors
             /\ WarningsAt(call.warnings, P) = <<>>)
            => /\ P \notin Keys(feedback)
               /\ P \notin files_with_warnings
               /\ P \notin files_with_errors

\* f2 has no history and is recompiled while f1's warning is retracted.
C3_Witness ==
    /\ Returned
    /\ call.op = "compiled"
    /\ call.paths = <<"f1", "f2">>
    /\ call.warnings = <<>>
    /\ call.self.files_with_warnings = {"f1"}
    /\ call.self.files_with_errors = {}
    /\ Keys(feedback) = {"f1"}

(* C4 as stated: for P in files_with_warnings before a compiled or          *)
(* build_with_error call, P among the compiled paths and no warning of the *)
(* call located at P, the returned entry for P is exactly the empty list   *)
(* and P is not in files_with_warnings afterwards.                         *)
C4_RecompiledWarningEntryEmpty ==
    (Returned /\ call.op \in {"compiled", "build_with_error"}) =>
        \A P \in Range(call.paths) :
            (/\ P \in call.self.files_with_warnings
             /\ WarningsAt(call.warnings, P) = <<>>)
            => /\ P \in Keys(feedback)
               /\ feedback.diagnostics[P] = <<>>
               /\ P \notin files_with_warnings

(* C4 amended: ... the returned entry for P is exactly the empty list,     *)
(* except that when the call is build_with_error with its error located at *)
(* P the entry is exactly [to_diagnostic(error)]; in both cases P is not   *)
(* in files_with_warnings afterwards.                                      *)
C4_RecompiledWarningRetracted ==
    (Returned /\ call.op \in {"compiled", "build_with_error"}) =>
        \A P \in Range(call.paths) :
            (/\ P \in call.self.files_with_warnings
             /\ WarningsAt(call.warnings, P) = <<>>)
            => /\ P \in Keys(feedback)
               /\ feedback.diagnostics[P] =
                     IF call.op = "build_with_error" /\ call.error.loc = P
                     THEN <<error_to_diagnostic(call.error)>>
                     ELSE <<>>
               /\ P \notin files_with_warnings

\* build_with_error(error@f1, [f1], []) while f1 has a warning.
C4_Witness ==
    /\ Returned
    /\ call.op = "build_with_error"
    /\ call.error.loc = "f1"
    /\ call.paths = <<"f1">>
    /\ call.warnings = <<>>
    /\ "f1" \in call.self.files_with_warnings
    /\ "f1" \notin files_with_warnings
    /\ Entry(feedback, "f1") = <<error_to_diagnostic(call.error)>>

(* C5 as stated: for P in files_with_errors before a compiled or           *)
(* build_with_error call, whatever the compiled paths and the warnings,    *)
(* the returned entry for P is [] and P is not in files_with_errors        *)
(* afterwards, unless the call reinstates an error located at P.           *)
C5_ErrorEntryEmpty ==
    (Returned /\ call.op \in {"compiled", "build_with_error"}) =>
        \A P \in call.self.files_with_errors :
            call.error.loc # P
            => /\ P \in Keys(feedback)
               /\ feedback.diagnostics[P] = <<>>
               /\ P \notin files_with_errors

(* C5 amended: ... the returned map has an entry for P, which holds        *)
(* exactly the diagnostics of the call's warnings located at P, in order   *)
(* (so it is [] when the call supplies no warning located at P), and P is  *)
(* not in files_with_errors afterwards, unless the call reinstates an      *)
(* error located at P.                                                     *)
C5_ErrorRetractedThenRepopulated ==
    (Returned /\ call.op \in {"compiled", "build_with_error"}) =>
        \A P \in call.self.files_with_errors :
            call.error.loc # P
            => /\ P \in Keys(feedback)
               /\ feedback.diagnostics[P] =
                     DiagnosticsOf(WarningsAt(call.warnings, P))
               /\ P \notin files_with_errors

\* The error of f1 is retracted by a call that brings a warning of f1.
C5_Witness ==
    /\ Returned
    /\ call.op = "compiled"
    /\ call.self.files_with_errors = {"f1"}
    /\ call.paths = <<>>
    /\ call.warnings = <<[id |-> "w1", loc |-> "f1"]>>
    /\ Entry(feedback, "f1") = <<warning_to_diagnostic(call.warnings[1])>>
    /\ files_with_errors = {}

(* C6: for every call and every path P, the warning diagnostics of the     *)
(* returned entry for P are the diagnostics of the call's warnings located *)
(* at P, in the order supplied and with duplicates kept.                   *)
C6_OrderAndMultiplicity ==
    Returned =>
        \A P \in Paths :
            WarningDiagnostics(Entry(feedback, P)) =
                DiagnosticsOf(WarningsAt(call.warnings, P))

\* Two different warnings of f1, supplied w2 first.
C6_Witness ==
    /\ Returned
    /\ call.warnings = <<[id |-> "w2", loc |-> "f1"], [id |-> "w1", loc |-> "f1"]>>
    /\ Entry(feedback, "f1") =
          <<[level |-> "warning", title |-> "w2", location |-> "f1"],
            [level |-> "warning", title |-> "w1", location |-> "f1"]>>

(* C7: build_with_error or error with an error that has no location        *)
(* returns messages = [to_diagnostic(error)] and a diagnostics map with    *)
(* exactly the keys compiled would have produced for the same arguments    *)
(* from the same sets, and leaves files_with_errors empty.                 *)
C7_LocationlessErrorIsMessage ==
    (Returned /\ IsBuildWithError /\ call.error.loc = NoPath) =>
        /\ feedback.messages = <<error_to_diagnostic(call.error)>>
        /\ Keys(feedback) = Keys(Base)
        /\ files_with_errors = {}

\* The error has no location while the error of f1 is outstanding and a
\* warning of f2 comes with the call.
C7_Witness ==
    /\ Returned
    /\ call.op = "build_with_error"
    /\ call.error.loc = NoPath
    /\ call.self.files_with_errors = {"f1"}
    /\ call.warnings = <<[id |-> "w1", loc |-> "f2"]>>
    /\ Keys(feedback) = {"f1", "f2"}
    /\ Len(feedback.messages) = 1

(* C8: build_with_error with an error located at P leaves P in             *)
(* files_with_errors and messages empty; the entry for P is the entry      *)
(* compiled would have produced (empty if absent) with to_diagnostic(error)*)
(* appended last, and every other path has the entry compiled produces.    *)
C8_LocatedErrorAppended ==
    (Returned /\ IsBuildWithError /\ call.error.loc # NoPath) =>
        LET P == call.error.loc
        IN  /\ P \in files_with_errors
            /\ feedback.messages = <<>>
            /\ Keys(feedback) = Keys(Base) \cup {P}
            /\ feedback.diagnostics[P] =
                  Append(Entry(Base, P), error_to_diagnostic(call.error))
            /\ \A Q \in Keys(feedback) \ {P} :
                  feedback.diagnostics[Q] = Base.diagnostics[Q]

\* The error of f1 comes after two warnings of f1 and one entry of f2.
C8_Witness ==
    /\ Returned
    /\ call.op = "build_with_error"
    /\ call.error.loc = "f1"
    /\ Len(Entry(Base, "f1")) = 2
    /\ Len(Entry(feedback, "f1")) = 3
    /\ "f2" \in Keys(feedback)
    /\ "f1" \in files_with_errors

(* C9: once the Feedback of a call is published, a path is in              *)
(* files_with_warnings if and only if the client shows at least one        *)
(* warning diagnostic for it.                                              *)
C9_WarningSetIsClientView ==
    pc = "idle" =>
        \A P \in Paths : P \in files_with_warnings <=> HasWarning(View(P))

(* C10: a path P is in files_with_errors if and only if the most recent    *)
(* call was build_with_error or error with an error located at P; and once *)
(* the Feedback of a call is published the client shows an error           *)
(* diagnostic for P exactly when P is in files_with_errors.                *)
C10_ErrorSetInvariant ==
    /\ \A P \in Paths : P \in files_with_errors <=> attached = P
    /\ pc = "idle" =>
          \A P \in Paths : P \in files_with_errors <=> HasError(View(P))

\* The error of f1 was retracted and the error of f2 is outstanding.
C10_Witness ==
    /\ pc = "idle"
    /\ files_with_errors = {"f2"}
    /\ "f1" \in DOMAIN client
    /\ client["f1"] = <<>>
    /\ HasError(View("f2"))

(* C11: error(e) returns the Feedback and leaves the two sets that         *)
(* build_with_error(e, no compiled path, no warning) returns and leaves    *)
(* from the same sets, for a located and for a location-less error; and it *)
(* leaves files_with_warnings unchanged.                                   *)
C11_ErrorIsBuildWithErrorOfNothing ==
    (Returned /\ call.op = "error") =>
        /\ [self |-> Self, feedback |-> feedback] =
              build_with_error(call.self, call.error, <<>>, <<>>, call.order)
        /\ files_with_warnings = call.self.files_with_warnings

\* error(e1@f2) while f1 has a warning and an outstanding error.
C11_Witness ==
    /\ Returned
    /\ call.op = "error"
    /\ call.error.loc = "f2"
    /\ call.self.files_with_warnings = {"f1"}
    /\ call.self.files_with_errors = {"f1"}
    /\ files_with_warnings = {"f1"}
    /\ files_with_errors = {"f2"}
    /\ Keys(feedback) = {"f1", "f2"}

\* The diagnostics one call supplies for P: its warnings located at P in
\* order, then its error if located at P.
SuppliedAt(c, P) ==
    DiagnosticsOf(WarningsAt(c.warnings, P))
        \o (IF c.error.loc = P THEN <<error_to_diagnostic(c.error)>> ELSE <<>>)

\* P is retracted by the call: a recompiled path that had warnings, or a
\* path that had an error.
RetractedBy(c, P) ==
    \/ P \in c.self.files_with_warnings /\ P \in Range(c.paths)
    \/ P \in c.self.files_with_errors

(* C12: for every path P a call retracts and for which the same call       *)
(* supplies a warning or the error located at P, the returned entry for P  *)
(* is non-empty and holds exactly this call's diagnostics for P.           *)
C12_RetractThenRepopulate ==
    Returned =>
        \A P \in Paths :
            (RetractedBy(call, P) /\ SuppliedAt(call, P) # <<>>)
            => /\ P \in Keys(feedback)
               /\ feedback.diagnostics[P] # <<>>
               /\ feedback.diagnostics[P] = SuppliedAt(call, P)

\* f1 had a warning and an error, is recompiled, and gets a warning and the
\* error of this call.
C12_Witness ==
    /\ Returned
    /\ call.op = "build_with_error"
    /\ call.self.files_with_warnings = {"f1"}
    /\ call.self.files_with_errors = {"f1"}
    /\ call.paths = <<"f1">>
    /\ call.warnings = <<[id |-> "w2", loc |-> "f1"]>>
    /\ call.error.loc = "f1"
    /\ Len(Entry(feedback, "f1")) = 2

\* The method of call c, run on the sets c started from with its error and
\* its warnings, over the compiled paths `paths` and the drain order `order`.
ResultOf(c, paths, order) ==
    CASE c.op = "compiled" ->
            compiled(c.self, paths, c.warnings, order)
      [] c.op = "build_with_error" ->
            build_with_error(c.self, c.error, paths, c.warnings, order)
      [] c.op = "error" ->
            error(c.self, c.error, order)

\* The sequences of compiled paths that name the same paths as `paths`, in
\* any order and with any repetition.
SamePaths(paths) ==
    {p \in SeqsUpTo(Paths, MaxCompiled + 1) : Range(p) = Range(paths)}

(* C13: the sets a call leaves and the Feedback it returns are determined  *)
(* by the sets before the call and the arguments: they are the same for    *)
(* every iteration order of the drain of files_with_errors and for every   *)
(* order and repetition of the paths in compiled_paths.                    *)
C13_Deterministic ==
    Returned =>
        \A order \in Orders(call.self.files_with_errors),
           paths \in SamePaths(call.paths) :
            ResultOf(call, paths, order) = [self |-> Self, feedback |-> feedback]

\* Two paths are drained and two paths are recompiled.
C13_Witness ==
    /\ Returned
    /\ call.op = "build_with_error"
    /\ call.self.files_with_errors = {"f1", "f2"}
    /\ call.self.files_with_warnings = {"f1", "f2"}
    /\ call.order = <<"f2", "f1">>
    /\ call.paths = <<"f2", "f1">>
    /\ Keys(feedback) = {"f1", "f2"}

(* C14: whenever a call leaves a path P in both files_with_warnings and    *)
(* files_with_errors, the entry the call returns for P holds at least one  *)
(* warning diagnostic and the error diagnostic.                            *)
C14_BothSetsBothKinds ==
    Returned =>
        \A P \in files_with_warnings \cap files_with_errors :
            HasWarning(Entry(feedback, P)) /\ HasError(Entry(feedback, P))

(* C15: files_with_errors never holds more than one path; after a call it  *)
(* is empty when the call is compiled or its error has no location, and    *)
(* exactly {P} when the call is build_with_error or error with an error    *)
(* located at P.                                                           *)
C15_AtMostOneError ==
    /\ Cardinality(files_with_errors) <= 1
    /\ Returned =>
          files_with_errors =
              IF IsBuildWithError /\ call.error.loc # NoPath
              THEN {call.error.loc}
              ELSE {}

\* The error of f2 takes the place of the outstanding error of f1.
C15_Witness ==
    /\ Returned
    /\ call.op = "build_with_error"
    /\ call.self.files_with_errors = {"f1"}
    /\ call.error.loc = "f2"
    /\ files_with_errors = {"f2"}

\* The paths of the located warnings of a call.
WarnedPaths(ws) == {ws[i].loc : i \in 1..Len(ws)} \ {NoPath}

(* C16: after every call files_with_warnings is the set before the call    *)
(* minus the compiled paths, plus the paths of the call's located          *)
(* warnings; the drain of files_with_errors and the attachment of an error *)
(* do not change it.                                                       *)
C16_WarningSetUpdate ==
    Returned =>
        files_with_warnings =
            (call.self.files_with_warnings \ Range(call.paths))
                \cup WarnedPaths(call.warnings)

\* f2 has a warning and an error and is not recompiled: its error is
\* retracted and it stays in files_with_warnings; f1 leaves the set.
C16_Witness ==
    /\ Returned
    /\ call.op = "compiled"
    /\ call.self.files_with_warnings = {"f1", "f2"}
    /\ call.self.files_with_errors = {"f2"}
    /\ call.paths = <<"f1">>
    /\ call.warnings = <<>>
    /\ files_with_warnings = {"f2"}
    /\ files_with_errors = {}

\* The paths a call retracts.
Retracted(c) ==
    (Range(c.paths) \cap c.self.files_with_warnings)
        \cup c.self.files_with_errors

(* C17: the keys of the returned diagnostics map are the compiled paths    *)
(* that were in files_with_warnings, the paths that were in                *)
(* files_with_errors, the paths of the call's located warnings and the     *)
(* path of its error if located; a key maps to the empty list exactly when *)
(* its path is of the first two and the call supplies no warning and no    *)
(* error located at it.                                                    *)
C17_ExactKeys ==
    Returned =>
        /\ Keys(feedback) =
              Retracted(call) \cup WarnedPaths(call.warnings)
                  \cup ({call.error.loc} \ {NoPath})
        /\ \A P \in Keys(feedback) :
              feedback.diagnostics[P] = <<>>
                  <=> /\ P \in Retracted(call)
                      /\ P \notin WarnedPaths(call.warnings)
                      /\ P # call.error.loc

\* f1 is retracted through files_with_warnings and left empty, f2 is
\* retracted through files_with_errors and gets the error again.
C17_Witness ==
    /\ Returned
    /\ call.op = "build_with_error"
    /\ call.self.files_with_warnings = {"f1"}
    /\ call.self.files_with_errors = {"f2"}
    /\ call.paths = <<"f1", "f2">>
    /\ call.warnings = <<>>
    /\ call.error.loc = "f2"
    /\ Keys(feedback) = {"f1", "f2"}
    /\ feedback.diagnostics["f1"] = <<>>
    /\ Len(feedback.diagnostics["f2"]) = 1

(* C18: once the Feedback of a call is published, a path for which the     *)
(* client shows a warning diagnostic is in files_with_warnings and a path  *)
(* for which it shows an error diagnostic is in files_with_errors; a path  *)
(* in neither set has an empty or never-set view.                          *)
C18_NoStaleDiagnostics ==
    pc = "idle" =>
        \A P \in Paths :
            /\ HasWarning(View(P)) => P \in files_with_warnings
            /\ HasError(View(P)) => P \in files_with_errors
            /\ P \notin files_with_warnings \cup files_with_errors
                  => View(P) = <<>>

\* f1 showed a warning and an error, and shows nothing once both were
\* retracted; f2 still shows its warning.
C18_Witness ==
    /\ pc = "idle"
    /\ files_with_warnings = {"f2"}
    /\ files_with_errors = {}
    /\ "f1" \in DOMAIN client
    /\ client["f1"] = <<>>
    /\ HasWarning(View("f2"))

\* The paths of the project before a call: those the bookkeeper tracks or
\* the client has ever been sent an entry for.  A path earlier calls
\* mentioned only as compiled has no entry anywhere.
Mentioned(c) ==
    DOMAIN client \cup c.self.files_with_warnings \cup c.self.files_with_errors

(* C19: after compiled(C, W) with C holding every path of the project, the *)
(* client's view of every path P, once the Feedback is published, is       *)
(* exactly the diagnostics of the warnings of W located at P, in order     *)
(* (empty or never set when there is none).                                *)
C19_FullRecompileResynchronises ==
    (Returned /\ call.op = "compiled" /\ Mentioned(call) \subseteq Range(call.paths))
    => \A P \in Paths :
           ViewAfter(P) = DiagnosticsOf(WarningsAt(call.warnings, P))

\* Both paths show diagnostics of earlier passes, f2 among them an error;
\* the full recompile brings one warning of f1.
C19_Witness ==
    /\ Returned
    /\ call.op = "compiled"
    /\ Range(call.paths) = {"f1", "f2"}
    /\ HasWarning(View("f1"))
    /\ HasError(View("f2")) /\ HasWarning(View("f2"))
    /\ call.warnings = <<[id |-> "w2", loc |-> "f1"]>>
    /\ ViewAfter("f1") = <<warning_to_diagnostic(call.warnings[1])>>
    /\ ViewAfter("f2") = <<>>

\* The warnings of a vector that have a location.
Located(ws) == SelectSeq(ws, LAMBDA w : w.loc # NoPath)

(* C20: a Feedback returned by compiled has no message; one returned by    *)
(* build_with_error or error has at most one, and has one only when the    *)
(* error has no location.  A warning without a location adds nothing to    *)
(* the Feedback and changes neither set: the call returns and leaves what  *)
(* it does without that warning.                                           *)
C20_MessagesOnlyFromLocationlessErrors ==
    Returned =>
        /\ call.op = "compiled" => feedback.messages = <<>>
        /\ Len(feedback.messages) <= 1
        /\ Len(feedback.messages) = 1 =>
              IsBuildWithError /\ call.error.loc = NoPath
        /\ [self |-> Self, feedback |-> feedback] =
              ResultOf([call EXCEPT !.warnings = Located(@)], call.paths,
                       call.order)

\* A located error comes with a warning that has no location.
C20_Witness ==
    /\ Returned
    /\ call.op = "build_with_error"
    /\ call.error.loc = "f1"
    /\ call.warnings = <<[id |-> "w1", loc |-> NoPath], [id |-> "w1", loc |-> "f2"]>>
    /\ feedback.messages = <<>>
    /\ Keys(feedback) = {"f1", "f2"}

=============================================================================
